---- MODULE Spec2Model ----
(***************************************************************************)
(* Breakout (www/breakout.js): Collider, Brick, Paddle, Ball, Game and the *)
(* requestAnimationFrame driver loop.                                      *)
(*                                                                         *)
(* Numbers.  The program computes with JavaScript Numbers.  The model uses *)
(* fixed point integers:                                                   *)
(*   lengths and positions   in 1/1000 pixel   (900 px    = 900000)        *)
(*   times (timestamp,delta) in 1/10 millisecond (16.7 ms = 167)           *)
(*   velocities              in 1/100000 pixel per ms (0.1 = 10000)        *)
(* With these units (ball.x - paddle.x) * 0.01 is exact, paddle.x +- delta *)
(* is exact (delta * 100), and v * delta * 0.3 is v * delta * 3 / 10000,   *)
(* rounded to the nearest 1/1000 pixel.                                    *)
(***************************************************************************)
EXTENDS Integers, Sequences, FiniteSets

VARIABLES
  screen,          \* game.screen: [w, h]
  bricks,          \* game.bricks: sequence of [x, y, color, alive]
  paddle,          \* game.paddle: [x, y]
  ball,            \* game.ball: [x, y, v: [x, y]]
  keystates,       \* game.keystates: array indexed by action, possibly with holes
  start,           \* global start
  prev_timestamp,  \* global prev_timestamp
  started,         \* start_game() has run (listeners registered, loop kicked)
  clock,           \* host: timestamp handed to the latest animation-frame callback
  frames,          \* host: number of animation-frame callbacks delivered so far
  keyEvents,       \* host: number of key events delivered so far
  lastKey,         \* host: the latest key event delivered, [keysym, state]
  calls,           \* trace: the calls made by the latest game_loop invocation or direct call
  updates,         \* trace: number of Game.update calls so far
  draws,           \* trace: number of Game.draw calls so far
  paddleRegion,    \* trace: ball-vs-paddle result of the latest Game.update
  regions,         \* trace: per brick, the result of the latest Game.update's loop
  canvas,          \* trace: draw calls issued by the latest Game.draw
  before,          \* trace: the ball as the latest Game.update found it
  circle, rect, region,  \* Collider on its own: arguments and result of circle_rectangle
  probes           \* number of direct calls made on an object on its own

vars == <<screen, bricks, paddle, ball, keystates, start, prev_timestamp, started,
          clock, frames, keyEvents, lastKey, calls, updates, draws, paddleRegion,
          regions, canvas, before, circle, rect, region, probes>>

gameVars   == <<screen, bricks, paddle, ball, keystates>>
loopVars   == <<start, prev_timestamp, started>>
hostVars   == <<clock, frames, keyEvents, lastKey>>
traceVars  == <<calls, updates, draws, paddleRegion, regions, canvas, before>>
probeVars  == <<circle, rect, region, probes>>

----------------------------------------------------------------------------
(* Bounds of the exploration *)

MaxFrames    == 5      \* animation-frame callbacks delivered
MaxKeyEvents == 2      \* key events delivered
MaxProbes    == 3      \* direct calls of Paddle.update on a paddle on its own

\* frame intervals the host may produce: 16.7 ms (60 Hz), and 500 ms and 2 s
\* (the page was stalled or in the background)
Deltas == {167, 5000, 20000}

\* timestamp of the first animation frame, the time since the page's time origin
\* (positive: the page has been loading for a while): 100 ms
FirstStamps == {1000}

\* keys the host may report; "a" is not bound
Keys == {"ArrowLeft", "ArrowRight", "a"}

----------------------------------------------------------------------------
(* Program constants *)

BrickWIDTH   == 44000
BrickHEIGHT  == 22000
PaddleWIDTH  == 90000
PaddleHEIGHT == 15000
BallRADIUS   == 10000
ActionLeft   == 0
ActionRight  == 1
GameBRICK_COLS   == 20
GameBRICK_ROWS   == 5
GameSCREEN_WIDTH == 900000
ScreenW == 900000
ScreenH == 780000

Null      == [kind |-> "null"]
Undefined == [kind |-> "undefined"]
Num(n)    == [kind |-> "number", val |-> n]

\* const KeyBind = { "ArrowLeft": Paddle.ACTION.Left, "ArrowRight": Paddle.ACTION.Right }
KeyBind == [k \in {"ArrowLeft", "ArrowRight"} |->
              IF k = "ArrowLeft" THEN ActionLeft ELSE ActionRight]

Abs(n) == IF n < 0 THEN -n ELSE n
Min(a, b) == IF a < b THEN a ELSE b
Max(a, b) == IF a > b THEN a ELSE b

\* v * delta * 0.3 in 1/1000 pixel: v * delta * 3 / 10000 rounded to the nearest
\* integer (half away from zero), computed without leaving 32 bits
Travel(v, delta) ==
  LET n == Abs(v) * 3
      m == (n \div 10000) * delta + ((n % 10000) * delta + 5000) \div 10000
  IN  IF v < 0 THEN -m ELSE m

----------------------------------------------------------------------------
(* Collider *)

\* mutant: the bounding-box test with "and" for "or"
circle_rectangle_BoxAnd(c, rc) ==
  LET dx == Abs(c.x - rc.x)
      dy == Abs(c.y - rc.y)
  IN  IF dx > c.r + rc.w \div 2 /\ dy > c.r + rc.h \div 2 THEN "null"
      ELSE IF dx <= rc.w \div 2 THEN "TOP_OR_BOTTOM"
      ELSE IF dy <= rc.h \div 2 THEN "LEFT_OR_RIGHT"
      ELSE IF (dx - rc.w \div 2) * (dx - rc.w \div 2)
              + (dy - rc.h \div 2) * (dy - rc.h \div 2) <= c.r * c.r THEN "CORNER"
      ELSE "null"

\* mutant: the y-span test before the x-span test
circle_rectangle_SpanYFirst(c, rc) ==
  LET dx == Abs(c.x - rc.x)
      dy == Abs(c.y - rc.y)
  IN  IF dx > c.r + rc.w \div 2 \/ dy > c.r + rc.h \div 2 THEN "null"
      ELSE IF dy <= rc.h \div 2 THEN "LEFT_OR_RIGHT"
      ELSE IF dx <= rc.w \div 2 THEN "TOP_OR_BOTTOM"
      ELSE IF (dx - rc.w \div 2) * (dx - rc.w \div 2)
              + (dy - rc.h \div 2) * (dy - rc.h \div 2) <= c.r * c.r THEN "CORNER"
      ELSE "null"

\* mutant: the corner test with "<" for "<="
circle_rectangle_CornerStrict(c, rc) ==
  LET dx == Abs(c.x - rc.x)
      dy == Abs(c.y - rc.y)
  IN  IF dx > c.r + rc.w \div 2 \/ dy > c.r + rc.h \div 2 THEN "null"
      ELSE IF dx <= rc.w \div 2 THEN "TOP_OR_BOTTOM"
      ELSE IF dy <= rc.h \div 2 THEN "LEFT_OR_RIGHT"
      ELSE IF (dx - rc.w \div 2) * (dx - rc.w \div 2)
              + (dy - rc.h \div 2) * (dy - rc.h \div 2) < c.r * c.r THEN "CORNER"
      ELSE "null"

circle_rectangle(c, rc) ==
  LET dx == Abs(c.x - rc.x)
      dy == Abs(c.y - rc.y)
  IN  IF dx > c.r + rc.w \div 2 \/ dy > c.r + rc.h \div 2 THEN "null"
      ELSE IF dx <= rc.w \div 2 THEN "TOP_OR_BOTTOM"
      ELSE IF dy <= rc.h \div 2 THEN "LEFT_OR_RIGHT"
      ELSE IF (dx - rc.w \div 2) * (dx - rc.w \div 2)
              + (dy - rc.h \div 2) * (dy - rc.h \div 2) <= c.r * c.r THEN "CORNER"
      ELSE "null"

----------------------------------------------------------------------------
(* Brick, Paddle, Ball *)

Brick(x, y, color) == [x |-> x, y |-> y, color |-> color, alive |-> TRUE]

\* the brick as the collider and the screen see it (getters w, h)
BrickRect(b) == [x |-> b.x, y |-> b.y, w |-> BrickWIDTH, h |-> BrickHEIGHT]

\* Brick.draw: the draw calls it issues
BrickDraw(b) ==
  IF b.alive
    THEN <<[op |-> "rectangle", x |-> b.x, y |-> b.y, w |-> BrickWIDTH,
            h |-> BrickHEIGHT, color |-> b.color]>>
    ELSE << >>

Paddle(x, y) == [x |-> x, y |-> y]

PaddleRect(p) == [x |-> p.x, y |-> p.y, w |-> PaddleWIDTH, h |-> PaddleHEIGHT]

PaddleDraw(p) ==
  <<[op |-> "rectangle", x |-> p.x, y |-> p.y, w |-> PaddleWIDTH,
     h |-> PaddleHEIGHT, color |-> "white"]>>

\* mutant: "keystates[action] != undefined" as the condition: false counts as held
Held_Defined(ks, action) == action \in DOMAIN ks

\* keystates[action] used as a condition: a hole (undefined) and false are falsy
Held(ks, action) == action \in DOMAIN ks /\ ks[action]

\* mutant: the lower bound of the crop missing
crop_x_NoMin(p, min, max) == Min(p.x, max - PaddleWIDTH \div 2)

crop_x(p, min, max) ==
  Min(Max(min + PaddleWIDTH \div 2, p.x), max - PaddleWIDTH \div 2)

\* mutant: the crop applied after each move instead of once at the end
PaddleUpdate_CropEachMove(p, delta, ks) ==
  LET p1 == IF Held(ks, ActionLeft)
              THEN [p EXCEPT !.x = crop_x([p EXCEPT !.x = @ - delta * 100],
                                          0, GameSCREEN_WIDTH)]
              ELSE p
      p2 == IF Held(ks, ActionRight) THEN [p1 EXCEPT !.x = @ + delta * 100] ELSE p1
  IN  [p2 EXCEPT !.x = crop_x(p2, 0, GameSCREEN_WIDTH)]

PaddleUpdate(p, delta, ks) ==
  LET p1 == IF Held(ks, ActionLeft)  THEN [p  EXCEPT !.x = @ - delta * 100] ELSE p
      p2 == IF Held(ks, ActionRight) THEN [p1 EXCEPT !.x = @ + delta * 100] ELSE p1
  IN  [p2 EXCEPT !.x = crop_x(p2, 0, GameSCREEN_WIDTH)]

Ball(x, y) == [x |-> x, y |-> y, v |-> [x |-> 10000, y |-> 100000]]

BallCircle(b) == [x |-> b.x, y |-> b.y, r |-> BallRADIUS]

BallDraw(b) ==
  <<[op |-> "circle", x |-> b.x, y |-> b.y, r |-> BallRADIUS, color |-> "white"]>>

\* mutant: the factor 0.3 missing from the x axis
BallUpdate_NoFactor(b, delta) ==
  [b EXCEPT !.x = @ + (b.v.x * delta) \div 100000,
            !.y = @ + Travel(b.v.y, delta)]

BallUpdate(b, delta) ==
  [b EXCEPT !.x = @ + Travel(b.v.x, delta),
            !.y = @ + Travel(b.v.y, delta)]

BallFlip(b, x_axis, y_axis) ==
  [b EXCEPT !.v = [x |-> b.v.x * x_axis, y |-> b.v.y * y_axis]]

----------------------------------------------------------------------------
(* Game *)

Colors == <<"red", "orange", "yellow", "green", "blue", "indigo", "purple">>

\* mutant: the row loop running one row too far ("row <= rows")
place_bricks_ExtraRow(cols, rows, start_x, start_y) ==
  [i \in 1..(cols * (rows + 1)) |->
     LET row == (i - 1) \div cols
         col == (i - 1) % cols
     IN  Brick(start_x + col * (BrickWIDTH + 1000),
               start_y + row * (BrickHEIGHT + 1000),
               Colors[(row % Len(Colors)) + 1])]

\* #place_bricks(cols, rows, start_x, start_y): row-major, gap = 1 px
place_bricks(cols, rows, start_x, start_y) ==
  [i \in 1..(cols * rows) |->
     LET row == (i - 1) \div cols
         col == (i - 1) % cols
     IN  Brick(start_x + col * (BrickWIDTH + 1000),
               start_y + row * (BrickHEIGHT + 1000),
               Colors[(row % Len(Colors)) + 1])]

\* mutant: "if (action)" for "if (action != undefined)": action 0 counts as unbound
update_keystate_Truthy(ks, keysym, state) ==
  IF keysym \in DOMAIN KeyBind /\ KeyBind[keysym] # 0
    THEN LET action == KeyBind[keysym]
         IN  [a \in DOMAIN ks \cup {action} |-> IF a = action THEN state ELSE ks[a]]
    ELSE ks

\* Game.update_keystate(keysym, state)
update_keystate(ks, keysym, state) ==
  IF keysym \in DOMAIN KeyBind
    THEN LET action == KeyBind[keysym]
         IN  [a \in DOMAIN ks \cup {action} |-> IF a = action THEN state ELSE ks[a]]
    ELSE ks

Regions == {"TOP_OR_BOTTOM", "LEFT_OR_RIGHT", "CORNER"}

\* The brick loop of Game.update.  Its body reads the ball, which the loop does
\* not change, and the brick's own alive flag; it writes that flag and sets
\* flip_x / flip_y to -1, never back to 1.  The iterations are therefore
\* independent of their order, and the loop is modelled brick by brick.

\* mutant: the loop without "if (!brick.alive) return"
BrickCollisionOfDead(brick, bc) == circle_rectangle(bc, BrickRect(brick))

\* the test of one iteration: "skipped" is the early return on a dead brick
BrickCollision(brick, bc) ==
  IF ~brick.alive THEN "skipped" ELSE circle_rectangle(bc, BrickRect(brick))

\* mutant: the loop stopping at the first brick hit
BrickLoop_StopAtFirstHit(bs, bc) ==
  [k \in DOMAIN bs |->
     IF \E j \in 1..(k - 1) : BrickCollision(bs[j], bc) \in Regions
       THEN "skipped"
       ELSE BrickCollision(bs[k], bc)]

\* bricks.forEach(...): the test of every iteration, in brick order
BrickLoop(bs, bc) == [k \in DOMAIN bs |-> BrickCollision(bs[k], bc)]

\* the brick after its iteration
BrickAfter(brick, collision) ==
  IF collision \in Regions THEN [brick EXCEPT !.alive = FALSE] ELSE brick

\* flip_x and flip_y after the loop, from the iterations' collisions
FlipX(rg) == IF \E k \in DOMAIN rg : rg[k] \in {"LEFT_OR_RIGHT", "CORNER"} THEN -1 ELSE 1

\* mutant: flip_y multiplied by -1 at every hit instead of set to -1
FlipY_PerBrick(rg) ==
  IF Cardinality({k \in DOMAIN rg : rg[k] \in {"TOP_OR_BOTTOM", "CORNER"}}) % 2 = 1
    THEN -1 ELSE 1
FlipY(rg) == IF \E k \in DOMAIN rg : rg[k] \in {"TOP_OR_BOTTOM", "CORNER"} THEN -1 ELSE 1

\* mutant: the offset scaled by 0.1 instead of 0.01
PaddleBounce_Tenth(b, p, collision) ==
  IF collision \in Regions
    THEN [b EXCEPT !.v = [x |-> 10 * (b.x - p.x), y |-> -Abs(b.v.y)]]
    ELSE b

\* mutant: v.y negated instead of forced negative
PaddleBounce_Negate(b, p, collision) ==
  IF collision \in Regions
    THEN [b EXCEPT !.v = [x |-> b.x - p.x, y |-> -b.v.y]]
    ELSE b

\* ball vs paddle, given the collision found
PaddleBounce(b, p, collision) ==
  IF collision \in Regions
    THEN [b EXCEPT !.v = [x |-> b.x - p.x, y |-> -Abs(b.v.y)]]
    ELSE b

\* mutant: the roof test missing
WallBounceNoRoof(b, scr) ==
  LET b1 == IF b.x - BallRADIUS < 0 THEN [b EXCEPT !.v.x = Abs(@)] ELSE b
  IN  IF b1.x + BallRADIUS > scr.w THEN [b1 EXCEPT !.v.x = -Abs(@)] ELSE b1

\* mutant: the left wall test flipping the sign instead of forcing it
WallBounceFlipLeft(b, scr) ==
  LET b1 == IF b.x - BallRADIUS < 0 THEN [b EXCEPT !.v.x = -@] ELSE b
      b2 == IF b1.x + BallRADIUS > scr.w THEN [b1 EXCEPT !.v.x = -Abs(@)] ELSE b1
  IN  IF b2.y - BallRADIUS < 0 THEN [b2 EXCEPT !.v.y = Abs(@)] ELSE b2

\* mutant: a floor added, reversing v.y while the ball is below the screen bottom
WallBounceWithFloor(b, scr) ==
  LET b1 == IF b.x - BallRADIUS < 0 THEN [b EXCEPT !.v.x = Abs(@)] ELSE b
      b2 == IF b1.x + BallRADIUS > scr.w THEN [b1 EXCEPT !.v.x = -Abs(@)] ELSE b1
      b3 == IF b2.y - BallRADIUS < 0 THEN [b2 EXCEPT !.v.y = Abs(@)] ELSE b2
  IN  IF b3.y + BallRADIUS > scr.h THEN [b3 EXCEPT !.v.y = -@] ELSE b3

\* ball vs wall
WallBounce(b, scr) ==
  LET b1 == IF b.x - BallRADIUS < 0 THEN [b EXCEPT !.v.x = Abs(@)] ELSE b
      b2 == IF b1.x + BallRADIUS > scr.w THEN [b1 EXCEPT !.v.x = -Abs(@)] ELSE b1
  IN  IF b2.y - BallRADIUS < 0 THEN [b2 EXCEPT !.v.y = Abs(@)] ELSE b2

\* bricks.forEach(brick => brick.draw(screen)): the calls of the bricks that
\* issue one, in brick order
DrawBricks(bs) ==
  LET drawing == SelectSeq(bs, LAMBDA brick : BrickDraw(brick) # << >>)
  IN  [k \in 1..Len(drawing) |-> BrickDraw(drawing[k])[1]]

\* Game.draw(): the draw calls issued, in order
GameDraw(bs, p, b) ==
  <<[op |-> "clear"]>> \o DrawBricks(bs) \o BallDraw(b) \o PaddleDraw(p)

----------------------------------------------------------------------------
(* The program: construction, key listeners, the animation-frame loop *)

NoRegions == [i \in 1..(GameBRICK_COLS * GameBRICK_ROWS) |-> "skipped"]

\* the globals start and prev_timestamp; nothing has run yet, no call is traced
Loaded ==
  /\ start = Null
  /\ prev_timestamp = Null
  /\ started = FALSE
  /\ clock = 0
  /\ frames = 0
  /\ keyEvents = 0
  /\ lastKey = [keysym |-> "", state |-> FALSE]
  /\ calls = << >>
  /\ updates = 0
  /\ draws = 0
  /\ paddleRegion = "null"
  /\ regions = NoRegions
  /\ canvas = << >>
  /\ before = Ball(0, 0)
  /\ region = "unset"
  /\ probes = 0

\* new Screen(w, h, ctx); new Game(screen, KeyBind)
Construct(scr) ==
  /\ screen = scr
  /\ bricks = place_bricks(GameBRICK_COLS, GameBRICK_ROWS,
                           BrickWIDTH \div 2, BrickHEIGHT \div 2 + 100000)
  /\ paddle = Paddle(scr.w \div 2, scr.h - 100000)
  /\ ball = Ball(scr.w \div 2, scr.h \div 2)
  /\ keystates = << >>
  /\ Loaded
  /\ circle = [x |-> 0, y |-> 0, r |-> 0]
  /\ rect = [x |-> 0, y |-> 0, w |-> 0, h |-> 0]

\* the page as shipped: a 900 x 780 canvas
Init == Construct([w |-> ScreenW, h |-> ScreenH])

\* !prev_timestamp
Falsy(t) == t.kind # "number" \/ t.val = 0

\* game.update(delta); game.draw();  Each bound name is a value the code computes,
\* in the order the code computes it.
UpdateAndDraw(delta) ==
  \E b1 \in {BallUpdate(ball, delta)} :
  \E p1 \in {PaddleUpdate(paddle, delta, keystates)} :
  \E hit \in {circle_rectangle(BallCircle(b1), PaddleRect(p1))} :
  \E b2 \in {PaddleBounce(b1, p1, hit)} :
  \E bc \in {BallCircle(b2)} :
  \E rg \in {BrickLoop(bricks, bc)} :
      /\ bricks' = [k \in DOMAIN bricks |-> BrickAfter(bricks[k], rg[k])]
      /\ paddle' = p1
      /\ ball' = WallBounce(BallFlip(b2, FlipX(rg), FlipY(rg)), screen)
      /\ paddleRegion' = hit
      /\ regions' = rg
      /\ canvas' = GameDraw(bricks', paddle', ball')
      /\ before' = ball
      /\ calls' = <<[op |-> "update", delta |-> delta], [op |-> "draw"]>>
      /\ updates' = updates + 1
      /\ draws' = draws + 1

\* mutant: prev_timestamp not advanced after a frame
game_loop_StalePrev(timestamp) ==
  IF Falsy(prev_timestamp)
    THEN /\ start' = timestamp
         /\ prev_timestamp' = timestamp
         /\ calls' = << >>
         /\ UNCHANGED <<bricks, paddle, ball, updates, draws, paddleRegion,
                        regions, canvas, before>>
    ELSE /\ UpdateAndDraw(timestamp.val - prev_timestamp.val)
         /\ UNCHANGED <<start, prev_timestamp>>

\* game_loop(timestamp)
game_loop(timestamp) ==
  IF Falsy(prev_timestamp)
    THEN /\ start' = timestamp
         /\ prev_timestamp' = timestamp
         /\ calls' = << >>
         /\ UNCHANGED <<bricks, paddle, ball, updates, draws, paddleRegion,
                        regions, canvas, before>>
    ELSE /\ UpdateAndDraw(timestamp.val - prev_timestamp.val)
         /\ prev_timestamp' = timestamp
         /\ UNCHANGED start

\* start_game(): register the key listeners and call game_loop() without a timestamp
start_game ==
  /\ ~started
  /\ started' = TRUE
  /\ game_loop(Undefined)
  /\ UNCHANGED <<screen, keystates, hostVars, probeVars>>

\* the host runs the callback given to requestAnimationFrame
AnimationFrame ==
  /\ started
  /\ frames < MaxFrames
  /\ \E t \in (IF frames = 0 THEN FirstStamps ELSE {clock + d : d \in Deltas}) :
        /\ clock' = t
        /\ game_loop(Num(t))
  /\ frames' = frames + 1
  /\ UNCHANGED <<screen, keystates, started, keyEvents, lastKey, probeVars>>

\* the host delivers a keydown (state = TRUE) or keyup (state = FALSE) event
KeyEvent(keysym, state) ==
  /\ started
  /\ keyEvents < MaxKeyEvents
  /\ keystates' = update_keystate(keystates, keysym, state)
  /\ keyEvents' = keyEvents + 1
  /\ lastKey' = [keysym |-> keysym, state |-> state]
  /\ UNCHANGED <<screen, bricks, paddle, ball, loopVars, clock, frames,
                 traceVars, probeVars>>

KeyDown == \E k \in Keys : KeyEvent(k, TRUE)
KeyUp   == \E k \in Keys : KeyEvent(k, FALSE)

Next == start_game \/ AnimationFrame \/ KeyDown \/ KeyUp

Spec == Init /\ [][Next]_vars

----------------------------------------------------------------------------
(* The same program on canvases of other sizes (the constructor arguments   *)
(* of Screen): the ball starts at (w/2, h/2), the paddle at (w/2, h - 100). *)

Screens == {[w |-> ScreenW, h |-> ScreenH], [w |-> 100000, h |-> 100000]}

InitScreens == \E scr \in Screens : Construct(scr)

SpecScreens == InitScreens /\ [][Next]_vars

----------------------------------------------------------------------------
(* The program on the shipped canvas and on a 1816 x 400 canvas, where the  *)
(* ball starts at (908, 200),                                               *)
(* to the right of the last brick of the bottom row (center (877, 203)),    *)
(* and the paddle at (908, 300), from where the first update crops it to    *)
(* x = 855.                                                                 *)

ScreenBeside == [w |-> 1816000, h |-> 400000]

InitBeside == \E scr \in {[w |-> ScreenW, h |-> ScreenH], ScreenBeside} : Construct(scr)

SpecBeside == InitBeside /\ [][Next]_vars

----------------------------------------------------------------------------
(* Collider.circle_rectangle on its own: one call on arguments drawn around *)
(* the edges and corners of a brick-sized and a paddle-sized rectangle.     *)

ProbeRects == {[x |-> 22000, y |-> 111000, w |-> BrickWIDTH, h |-> BrickHEIGHT],
               [x |-> 450000, y |-> 680000, w |-> PaddleWIDTH, h |-> PaddleHEIGHT]}

ProbeRadii == {BallRADIUS, 5000}

\* distances of the circle's center from the rectangle's, per axis: the center,
\* the edge of the span (half), the edge of the bounding box (half + r), and
\* inside, on and outside the corner's circle (a 3-4-5 triangle), either side
ProbeOffsets(half, r) ==
  LET d == {0, half - 1, half, half + 1,
            half + (3 * r) \div 5, half + (4 * r) \div 5, half + (4 * r) \div 5 + 1,
            half + r - 1, half + r, half + r + 1}
  IN  d \cup {-k : k \in d}

InitCollider ==
  /\ screen = [w |-> ScreenW, h |-> ScreenH]
  /\ bricks = << >>
  /\ paddle = Paddle(0, 0)
  /\ ball = Ball(0, 0)
  /\ keystates = << >>
  /\ Loaded
  /\ \E rc \in ProbeRects, r \in ProbeRadii :
       \E ox \in ProbeOffsets(rc.w \div 2, r), oy \in ProbeOffsets(rc.h \div 2, r) :
          /\ rect = rc
          /\ circle = [x |-> rc.x + ox, y |-> rc.y + oy, r |-> r]

Collide ==
  /\ probes = 0
  /\ region' = circle_rectangle(circle, rect)
  /\ probes' = 1
  /\ UNCHANGED <<gameVars, loopVars, hostVars, traceVars, circle, rect>>

SpecCollider == InitCollider /\ [][Collide]_vars

----------------------------------------------------------------------------
(* Paddle on its own: new Paddle(x, y), then paddle.update(delta, keystates) *)
(* with any delta and any keystates array.                                  *)

\* x = 0 is the constructor's default
PaddleStarts == {-100000, 0, 44000, 45000, 450000, 855000, 856000, 2000000}

\* 10 ms, 16.7 ms either way, none, 500 ms, 2 s
PaddleDeltas == {-167, 0, 100, 167, 5000, 20000}

\* every array update_keystate can build: each action absent, false or true
KeyStates ==
  UNION {[acts -> BOOLEAN] : acts \in SUBSET {ActionLeft, ActionRight}}

InitPaddle ==
  /\ screen = [w |-> ScreenW, h |-> ScreenH]
  /\ bricks = << >>
  /\ \E x \in PaddleStarts : paddle = Paddle(x, 0)
  /\ ball = Ball(0, 0)
  /\ keystates = << >>
  /\ Loaded
  /\ circle = [x |-> 0, y |-> 0, r |-> 0]
  /\ rect = [x |-> 0, y |-> 0, w |-> 0, h |-> 0]

PaddleProbe ==
  /\ probes < MaxProbes
  /\ \E delta \in PaddleDeltas, ks \in KeyStates :
       /\ keystates' = ks
       /\ paddle' = PaddleUpdate(paddle, delta, ks)
       /\ calls' = <<[op |-> "Paddle.update", delta |-> delta]>>
  /\ probes' = probes + 1
  /\ UNCHANGED <<screen, bricks, ball, loopVars, hostVars, updates, draws,
                 paddleRegion, regions, canvas, before, circle, rect, region>>

SpecPaddle == InitPaddle /\ [][PaddleProbe]_vars

----------------------------------------------------------------------------
(* Claims *)

\* a step in which Game.update ran
Updated == updates' = updates + 1

\* C1 as claimed: after every Game.update the ball lies inside the playfield
\* (left wall, right wall and ceiling, the radius included).
C1_BallInsidePlayfield ==
  updates >= 1 =>
    /\ ball.x - BallRADIUS >= 0
    /\ ball.x + BallRADIUS <= screen.w
    /\ ball.y - BallRADIUS >= 0

\* C1 as amended: Game.update may leave the ball beyond a wall (the wall pass
\* changes the velocity only), but a ball that is beyond a wall when an update
\* starts is not moved further out by it: past the left wall x does not
\* decrease, past the right wall x does not increase, past the ceiling y does
\* not decrease.
C1_BallOutsideComesBack ==
  [][Updated =>
       /\ (ball.x - BallRADIUS < 0 => ball'.x >= ball.x)
       /\ (ball.x + BallRADIUS > screen.w => ball'.x <= ball.x)
       /\ (ball.y - BallRADIUS < 0 => ball'.y >= ball.y)]_vars

\* C1 witness: an update found the ball above the ceiling and moved it down,
\* and it is still above the ceiling afterwards.
C1_Witness ==
  /\ updates >= 2
  /\ before.y - BallRADIUS < 0
  /\ ball.y > before.y
  /\ ball.y - BallRADIUS < 0

\* C3: once a brick is dead, no later Game.update evaluates a collision for it
\* (its iteration is skipped, so it sets no flip) and it stays dead, and no
\* Game.draw issues a rectangle call for a dead brick.
C3_DeadBrickIsGone ==
  [][/\ Updated =>
          \A i \in DOMAIN bricks :
             ~bricks[i].alive => regions'[i] = "skipped" /\ ~bricks'[i].alive
     /\ \A i \in DOMAIN bricks' :
          ~bricks'[i].alive =>
             ~\E k \in DOMAIN canvas' :
                 /\ canvas'[k].op = "rectangle"
                 /\ canvas'[k].x = bricks'[i].x
                 /\ canvas'[k].y = bricks'[i].y
                 /\ canvas'[k].w = BrickWIDTH]_vars

\* C3 witness: after a draw, the ball overlaps a dead brick whose iteration the
\* latest update skipped.
C3_Witness ==
  /\ draws >= 1
  /\ \E i \in DOMAIN bricks :
       /\ ~bricks[i].alive
       /\ regions[i] = "skipped"
       /\ circle_rectangle(BallCircle(ball), BrickRect(bricks[i])) \in Regions

\* C4: whenever the ball is past the left wall its velocity points right, past
\* the right wall it points left, above the ceiling it points down.
C4_WallsTurnBall ==
  /\ ball.x - BallRADIUS < 0 => ball.v.x > 0
  /\ ball.x + BallRADIUS > screen.w => ball.v.x < 0
  /\ ball.y - BallRADIUS < 0 => ball.v.y > 0

\* C4 witness: an update moved the ball, travelling left, past the left wall.
C4_Witness ==
  /\ updates >= 1
  /\ before.v.x < 0
  /\ before.x - BallRADIUS >= 0
  /\ ball.x - BallRADIUS < 0
  /\ ball.v.x > 0

\* C2: after every Paddle.update the paddle's center is within
\* [w/2, screen_width - w/2] = [45, 855] px, whatever x it started from.
C2_PaddleWithinScreen ==
  probes >= 1 =>
    /\ 2 * paddle.x >= PaddleWIDTH
    /\ 2 * paddle.x <= 2 * GameSCREEN_WIDTH - PaddleWIDTH

\* C2 witness: with Left held, an update has left the paddle on the lower end of
\* the range (x = 45 px).
C2_Witness ==
  /\ probes >= 1
  /\ ActionLeft \in DOMAIN keystates
  /\ keystates[ActionLeft]
  /\ paddle.x = 45000

\* the distances between the centers, doubled (so that w/2 and h/2 need no division)
ProbeDx2 == 2 * Abs(circle.x - rect.x)
ProbeDy2 == 2 * Abs(circle.y - rect.y)

\* the bounding-box test fails
ProbeOutsideBox ==
  ProbeDx2 > 2 * circle.r + rect.w \/ ProbeDy2 > 2 * circle.r + rect.h

\* C5: circle_rectangle returns none whenever dx > r + w/2 or dy > r + h/2.
C5_OutsideBoxIsNone ==
  (probes = 1 /\ ProbeOutsideBox) => region = "null"

\* C5 witness: a call with dx > r + w/2 and the circle's center inside the
\* rectangle's vertical span, answered none.
C5_Witness ==
  /\ probes = 1
  /\ ProbeDx2 > 2 * circle.r + rect.w
  /\ ProbeDy2 <= rect.h
  /\ region = "null"

\* C6: when the bounding-box test passes and dx <= w/2 the result is
\* TOP_OR_BOTTOM, also when dy <= h/2 (so for a circle centered on the
\* rectangle's center); LEFT_OR_RIGHT is returned only when dx > w/2 and
\* dy <= h/2.
C6_SpanXFirst ==
  probes = 1 =>
    /\ (~ProbeOutsideBox /\ ProbeDx2 <= rect.w) => region = "TOP_OR_BOTTOM"
    /\ (circle.x = rect.x /\ circle.y = rect.y) => region = "TOP_OR_BOTTOM"
    /\ region = "LEFT_OR_RIGHT" => (ProbeDx2 > rect.w /\ ProbeDy2 <= rect.h)

\* C6 witness: a circle centered on the rectangle's center, answered TOP_OR_BOTTOM.
C6_Witness ==
  /\ probes = 1
  /\ circle.x = rect.x
  /\ circle.y = rect.y
  /\ region = "TOP_OR_BOTTOM"

\* C7: with dx > w/2 and dy > h/2 the result is CORNER if
\* (dx - w/2)^2 + (dy - h/2)^2 <= r^2 and none otherwise.
C7_CornerOrNone ==
  (probes = 1 /\ ProbeDx2 > rect.w /\ ProbeDy2 > rect.h) =>
    region = IF (ProbeDx2 - rect.w) * (ProbeDx2 - rect.w)
                + (ProbeDy2 - rect.h) * (ProbeDy2 - rect.h)
                <= 4 * circle.r * circle.r
               THEN "CORNER" ELSE "null"

\* C7 witness: the circle's center exactly r away from the corner (3-4-5),
\* answered CORNER.
C7_Witness ==
  /\ probes = 1
  /\ ProbeDx2 > rect.w
  /\ ProbeDy2 > rect.h
  /\ (ProbeDx2 - rect.w) * (ProbeDx2 - rect.w)
       + (ProbeDy2 - rect.h) * (ProbeDy2 - rect.h) = 4 * circle.r * circle.r
  /\ region = "CORNER"

\* the held flag of an action as a reader of keystates sees it
C8_Flag(ks, action) ==
  IF action \in DOMAIN ks THEN (IF ks[action] THEN "true" ELSE "false") ELSE "undefined"

\* C8: a key event for left-arrow sets the flag of Left (code 0), one for
\* right-arrow the flag of Right (code 1), to the event's pressed value and
\* leaves the other flag alone; an event for any other key changes no flag;
\* no key event changes the ball, the paddle or a brick.
C8_KeyEventEffect ==
  [][keyEvents' = keyEvents + 1 =>
       LET k  == lastKey'.keysym
           st == IF lastKey'.state THEN "true" ELSE "false"
       IN  /\ k = "ArrowLeft" =>
                /\ C8_Flag(keystates', 0) = st
                /\ C8_Flag(keystates', 1) = C8_Flag(keystates, 1)
           /\ k = "ArrowRight" =>
                /\ C8_Flag(keystates', 1) = st
                /\ C8_Flag(keystates', 0) = C8_Flag(keystates, 0)
           /\ k \notin {"ArrowLeft", "ArrowRight"} => keystates' = keystates
           /\ DOMAIN keystates' \subseteq {0, 1}
           /\ UNCHANGED <<ball, paddle, bricks>>]_vars

\* C8 witness: a keydown of left-arrow has set the flag of Left, and a key that
\* is not bound came after it.
C8_Witness ==
  /\ keyEvents = 2
  /\ lastKey.keysym = "a"
  /\ C8_Flag(keystates, 0) = "true"
  /\ C8_Flag(keystates, 1) = "undefined"

\* C9: the first animation frame calls neither Game.update nor Game.draw; every
\* later frame calls Game.update(delta) once and then Game.draw() once, with
\* delta the frame's timestamp minus the previous frame's; nothing else calls
\* them.
C9_UpdateThenDrawPerFrame ==
  [][IF frames' = frames + 1 /\ frames >= 1
       THEN /\ calls' = <<[op |-> "update", delta |-> clock' - clock], [op |-> "draw"]>>
            /\ updates' = updates + 1
            /\ draws' = draws + 1
       ELSE /\ updates' = updates
            /\ draws' = draws
            /\ (frames' = frames + 1 => calls' = << >>)]_vars

\* C9 witness: three frames in, two updates and two draws have been made, the
\* latest update with a 16.7 ms delta.
C9_Witness ==
  /\ frames = 3
  /\ updates = 2
  /\ draws = 2
  /\ calls = <<[op |-> "update", delta |-> 167], [op |-> "draw"]>>

\* a step in which Game.update ran and found no paddle, brick or wall collision
C10_FreeFrame ==
  /\ Updated
  /\ paddleRegion' = "null"
  /\ \A i \in DOMAIN regions' : regions'[i] \notin Regions
  /\ ball'.x - BallRADIUS >= 0
  /\ ball'.x + BallRADIUS <= screen.w
  /\ ball'.y - BallRADIUS >= 0

\* moved = v * delta * 0.3 to the nearest 1/1000 px: |moved * 10000 - 3 * v * delta|
\* <= 5000, with 3 * v split as q * 10000 + rem to stay within 32 bits
C10_Advance(moved, v, delta) ==
  LET q   == (3 * v) \div 10000
      rem == (3 * v) % 10000
  IN  Abs((moved - q * delta) * 10000 - rem * delta) <= 5000

\* the frame of the scenario: ball at (50, 50) with v = (0.1, 1), delta = 16.7 ms
C10_Scenario ==
  /\ C10_FreeFrame
  /\ ball = Ball(50000, 50000)
  /\ calls'[1].delta = 167

\* C10 as claimed: a frame without collision leaves the velocity unchanged and
\* advances the position by velocity * delta * 0.3 per axis, and in the
\* scenario the new position is about (50.05, 55.01).
C10_FreeFlightAsClaimed ==
  [][/\ C10_FreeFrame =>
          /\ ball'.v = ball.v
          /\ C10_Advance(ball'.x - ball.x, ball.v.x, calls'[1].delta)
          /\ C10_Advance(ball'.y - ball.y, ball.v.y, calls'[1].delta)
     /\ C10_Scenario =>
          /\ Abs(ball'.x - 50050) <= 10
          /\ Abs(ball'.y - 55010) <= 10]_vars

\* C10 as amended: as claimed, but in the scenario the new position is about
\* (50.501, 55.01).
C10_FreeFlight ==
  [][/\ C10_FreeFrame =>
          /\ ball'.v = ball.v
          /\ C10_Advance(ball'.x - ball.x, ball.v.x, calls'[1].delta)
          /\ C10_Advance(ball'.y - ball.y, ball.v.y, calls'[1].delta)
     /\ C10_Scenario =>
          /\ Abs(ball'.x - 50501) <= 10
          /\ Abs(ball'.y - 55010) <= 10]_vars

\* C10 witness: the scenario's frame has run.
C10_Witness ==
  /\ updates = 1
  /\ before = Ball(50000, 50000)
  /\ calls[1].delta = 167
  /\ paddleRegion = "null"
  /\ \A i \in DOMAIN regions : regions[i] \notin Regions
  /\ ball = [x |-> 50501, y |-> 55010, v |-> [x |-> 10000, y |-> 100000]]

\* the paddle's x after the moves of the held actions, before the clamp
C11_Moved(x, delta, ks) ==
  x - (IF C8_Flag(ks, ActionLeft) = "true" THEN delta * 100 ELSE 0)
    + (IF C8_Flag(ks, ActionRight) = "true" THEN delta * 100 ELSE 0)

\* C11: Paddle.update(delta, keystates) moves x by -delta if Left is held and by
\* +delta if Right is held (both: no net move, neither: no move) and then
\* clamps: the result is the moved value when that lies in [45, 855] px and the
\* nearer end of the range otherwise; from x = 450 with only Left held and
\* delta = 10 the result is 440.
C11_PaddleMoveThenClamp ==
  [][probes' = probes + 1 =>
       LET delta == calls'[1].delta
           moved == C11_Moved(paddle.x, delta, keystates')
       IN  /\ paddle'.x = IF 2 * moved < PaddleWIDTH THEN PaddleWIDTH \div 2
                           ELSE IF 2 * moved > 2 * GameSCREEN_WIDTH - PaddleWIDTH
                                  THEN GameSCREEN_WIDTH - PaddleWIDTH \div 2
                                  ELSE moved
           /\ paddle'.y = paddle.y
           /\ (/\ paddle.x = 450000
               /\ delta = 100
               /\ C8_Flag(keystates', ActionLeft) = "true"
               /\ C8_Flag(keystates', ActionRight) # "true") => paddle'.x = 440000]_vars

\* C11 witness: the scenario has run: one update with delta = 10 ms and only
\* Left held has taken the paddle from 450 to 440.
C11_Witness ==
  /\ probes = 1
  /\ calls = <<[op |-> "Paddle.update", delta |-> 100]>>
  /\ C8_Flag(keystates, ActionLeft) = "true"
  /\ C8_Flag(keystates, ActionRight) # "true"
  /\ paddle.x = 440000

\* a brick was hit on a side or corner / on top, bottom or corner in the step's update
BrickHitX == \E i \in DOMAIN regions' : regions'[i] \in {"LEFT_OR_RIGHT", "CORNER"}
BrickHitY == \E i \in DOMAIN regions' : regions'[i] \in {"TOP_OR_BOTTOM", "CORNER"}

\* the ball ends the step's update beyond a side wall / above the ceiling
SideWall == ball'.x - BallRADIUS < 0 \/ ball'.x + BallRADIUS > screen.w
Ceiling  == ball'.y - BallRADIUS < 0

\* C12: the ball-vs-paddle test of Game.update is made on the positions after
\* the ball and the paddle have moved; whenever it returns a region, whichever
\* it is and whatever the sign of v.y was, the velocity becomes
\* v.x = (ball.x - paddle.x) * 0.01, v.y = -|v.y|: that is the velocity after
\* the update unless a brick or a wall turns an axis afterwards (which changes
\* a sign only), and without a brick or ceiling collision v.y ends <= 0.
C12_PaddleHitSendsBallUp ==
  [][Updated =>
       /\ paddleRegion' = circle_rectangle(BallCircle(ball'), PaddleRect(paddle'))
       /\ paddleRegion' \in Regions =>
            LET vx == ball'.x - paddle'.x
                vy == -Abs(ball.v.y)
            IN  /\ ball'.v.x \in {vx, -vx}
                /\ ball'.v.y \in {vy, -vy}
                /\ (~BrickHitX /\ ~SideWall) => ball'.v.x = vx
                /\ (~BrickHitY /\ ~Ceiling) => (ball'.v.y = vy /\ ball'.v.y <= 0)]_vars

\* C12 witness: the ball, already travelling up and still touching the paddle,
\* was hit again: v.y stayed negative and v.x was taken from the offset.
C12_Witness ==
  /\ updates >= 2
  /\ paddleRegion \in Regions
  /\ before.v.y < 0
  /\ ball.v.y = -Abs(before.v.y)
  /\ ball.v.x = ball.x - paddle.x
  /\ ball.v.x # before.v.x

\* the ball's velocity when the step's update reaches the brick loop: the one
\* the paddle hit assigned, if there was one, and the frame's initial one otherwise
VelocityAtBricks ==
  IF paddleRegion' \in Regions
    THEN [x |-> ball'.x - paddle'.x, y |-> -Abs(ball.v.y)]
    ELSE ball.v

\* the bricks the step's update hit
HitBricks == {i \in DOMAIN regions' : regions'[i] \in Regions}

\* C13: the brick step flips each axis at most once per frame, however many
\* bricks are hit: v.x is negated once iff some live brick was hit with
\* LEFT_OR_RIGHT or CORNER, v.y once iff some live brick was hit with
\* TOP_OR_BOTTOM or CORNER, neither without a hit (the wall pass, which comes
\* after, may then force a sign); only live bricks are hit; a single
\* LEFT_OR_RIGHT hit with no other collision kills the brick, reverses v.x and
\* leaves v.y unchanged.
C13_OneFlipPerAxis ==
  [][Updated =>
       LET v == VelocityAtBricks
       IN  /\ \A i \in HitBricks : bricks[i].alive
           /\ ball'.v.x \in {v.x, -v.x}
           /\ ball'.v.y \in {v.y, -v.y}
           /\ ~SideWall => ball'.v.x = IF BrickHitX THEN -v.x ELSE v.x
           /\ ~Ceiling  => ball'.v.y = IF BrickHitY THEN -v.y ELSE v.y
           /\ (/\ Cardinality(HitBricks) = 1
               /\ \A i \in HitBricks : regions'[i] = "LEFT_OR_RIGHT"
               /\ paddleRegion' = "null"
               /\ ~SideWall /\ ~Ceiling)
                => /\ ball'.v.x = -ball.v.x
                   /\ ball'.v.y = ball.v.y
                   /\ \A i \in HitBricks : ~bricks'[i].alive]_vars

\* C13 witness: one update hit two bricks from below or above (no paddle, no
\* wall) and v.y was reversed once.
C13_Witness ==
  /\ updates >= 1
  /\ Cardinality({i \in DOMAIN regions : regions[i] \in {"TOP_OR_BOTTOM", "CORNER"}}) >= 2
  /\ paddleRegion = "null"
  /\ ball.y - BallRADIUS >= 0
  /\ ball.v.y = -before.v.y

\* C14: at the end of Game.update every brick that was alive at its start and
\* collides with the ball (at the position the update moved it to) is dead,
\* however many there are, every other brick is as it was, and no brick
\* changes otherwise.
C14_EveryHitBrickDies ==
  [][Updated =>
       /\ DOMAIN bricks' = DOMAIN bricks
       /\ \A i \in DOMAIN bricks :
            LET collision == circle_rectangle(BallCircle(ball'), BrickRect(bricks[i]))
            IN  bricks'[i] = IF bricks[i].alive /\ collision \in Regions
                               THEN [bricks[i] EXCEPT !.alive = FALSE]
                               ELSE bricks[i]]_vars

\* C14 witness: the latest update hit two bricks, both are dead now, and a
\* brick next to them that was not hit is alive.
C14_Witness ==
  /\ updates >= 1
  /\ \E i, j \in DOMAIN bricks :
       /\ i < j
       /\ regions[i] \in Regions /\ ~bricks[i].alive
       /\ regions[j] \in Regions /\ ~bricks[j].alive
       /\ j + 1 \in DOMAIN bricks
       /\ regions[j + 1] = "null" /\ bricks[j + 1].alive

\* the number of live bricks in a brick array
LiveBricks(bs) == Cardinality({i \in DOMAIN bs : bs[i].alive})

\* C15, the grid: 20 x 5 = 100 bricks in row-major order, brick i at column
\* (i - 1) % 20 and row (i - 1) \div 20, 45 px apart in x from 22 and 23 px
\* apart in y from 111.
C15_GridInPlace ==
  /\ Len(bricks) = 100
  /\ \A i \in DOMAIN bricks :
       /\ bricks[i].x = 22000 + ((i - 1) % 20) * 45000
       /\ bricks[i].y = 111000 + ((i - 1) \div 20) * 23000

\* C15: the grid holds exactly 100 bricks in every reachable state, all alive
\* initially; no step adds, removes, moves, recolours or reorders a brick; an
\* alive flag only changes from true to false, so the number of live bricks
\* never increases.
C15_BricksOnlyDie ==
  [][/\ ~started => \A i \in DOMAIN bricks : bricks[i].alive
     /\ C15_GridInPlace
     /\ C15_GridInPlace'
     /\ DOMAIN bricks' = DOMAIN bricks
     /\ \A i \in DOMAIN bricks :
          /\ bricks'[i].x = bricks[i].x
          /\ bricks'[i].y = bricks[i].y
          /\ bricks'[i].color = bricks[i].color
          /\ bricks'[i].alive => bricks[i].alive
     /\ LiveBricks(bricks') <= LiveBricks(bricks)]_vars

\* C15 witness: a brick died in an earlier update and is still dead after the
\* latest one, the grid is in place, and the other bricks are alive.
C15_Witness ==
  /\ C15_GridInPlace
  /\ LiveBricks(bricks) \in 90..99
  /\ \E i \in DOMAIN bricks : ~bricks[i].alive /\ regions[i] = "skipped"

\* the ball is below the screen bottom and travelling down
Missed(b) == b.y - BallRADIUS > screen.h /\ b.v.y > 0

\* C16: a missed ball is terminal.  Once the ball is below the screen bottom
\* with v.y > 0, every later step (frame or key event) leaves it there with
\* v.y > 0 and y not decreased, no update finds a paddle or brick collision,
\* and no brick changes.
C16_MissedIsTerminal ==
  [][Missed(ball) =>
       /\ Missed(ball')
       /\ ball'.y >= ball.y
       /\ bricks' = bricks
       /\ Updated => /\ paddleRegion' = "null"
                      /\ HitBricks = {}
                      /\ ball'.y > ball.y]_vars

\* C16 witness: an update found the ball already missed and carried it
\* further down.
C16_Witness ==
  /\ updates >= 2
  /\ Missed(before)
  /\ Missed(ball)
  /\ ball.y > before.y
  /\ paddleRegion = "null"

\* x cropped to [45, 855] px
C17_Crop(x) ==
  IF 2 * x < PaddleWIDTH THEN PaddleWIDTH \div 2
  ELSE IF 2 * x > 2 * GameSCREEN_WIDTH - PaddleWIDTH THEN GameSCREEN_WIDTH - PaddleWIDTH \div 2
  ELSE x

\* C17: the paddle moves in Game.update only, by what the held flags say at
\* that moment: -delta for Left, +delta for Right, then the crop.  A key event
\* moves nothing and leaves the key's flag at the event's pressed value, so
\* however the events were interleaved before it, an update that follows the
\* release of Left (Right not held) does not move the paddle, and an update
\* that follows the press of Left, not yet released, moves it by -delta.
C17_PaddleFollowsHeldFlags ==
  [][/\ Updated =>
          LET delta == calls'[1].delta
          IN  /\ keystates' = keystates
              /\ paddle'.x = C17_Crop(C11_Moved(paddle.x, delta, keystates))
              /\ (/\ lastKey.keysym = "ArrowLeft"
                  /\ C8_Flag(keystates, ActionRight) # "true")
                   => paddle'.x = IF lastKey.state
                                    THEN C17_Crop(paddle.x - delta * 100)
                                    ELSE C17_Crop(paddle.x)
     /\ keyEvents' = keyEvents + 1 =>
          /\ paddle' = paddle
          /\ lastKey'.keysym \in DOMAIN KeyBind =>
               C8_Flag(keystates', KeyBind[lastKey'.keysym])
                 = IF lastKey'.state THEN "true" ELSE "false"]_vars

\* C17 witness: Left was pressed before the first update (16.7 ms), which moved
\* the paddle from 450 to 433.3, and released before the second (500 ms),
\* which did not move it.
C17_Witness ==
  /\ updates = 2
  /\ keyEvents = 2
  /\ lastKey = [keysym |-> "ArrowLeft", state |-> FALSE]
  /\ calls[1].delta = 5000
  /\ paddle.x = 433300

\* C18: in every reachable state |v.y| = 1 (its initial value) and
\* |v.x| <= (r + paddle.w / 2) * 0.01 = 0.55.
C18_SpeedBounded ==
  /\ Abs(ball.v.y) = 100000
  /\ Abs(ball.v.x) <= 55000
  /\ 2 * Abs(ball.v.x) <= 2 * BallRADIUS + PaddleWIDTH
  /\ updates = 0 => ball.v = [x |-> 10000, y |-> 100000]

\* C18 witness: a hit on the paddle's side or corner has set |v.x| above 0.45,
\* and a later update has run with that velocity.
C18_Witness ==
  /\ updates >= 2
  /\ Abs(before.v.x) > 45000
  /\ Abs(ball.v.x) > 45000
  /\ Abs(ball.v.x) <= 55000
  /\ ball.v.y = -100000

====
